---- MODULE Spec2Model ----
(***************************************************************************)
(* Retrieval pipeline of ai-doc-search: the chunker                        *)
(* (DocumentProcessorService), the in-memory stores (RagRepository), the   *)
(* embedding/ingestion path (VectorStoreService.addChunks,                 *)
(* RagService.loadDocumentsFromText) and the query orchestrator            *)
(* (RagService.query, as built in dist/services/RagMainService.js, the     *)
(* build the controller imports).                                          *)
(*                                                                         *)
(* Representation.  A JavaScript string is a sequence of one-character     *)
(* strings.  A Map is a sequence of entries in insertion order (vectors,   *)
(* documents) or a function over its key set (documentChunks).  A          *)
(* similarity score is the cosine in hundredths, rounded down.             *)
(* Timestamps (createdAt, Date.now()) are not part of the state.           *)
(***************************************************************************)
EXTENDS Integers, Sequences, FiniteSets, TLC

VARIABLES
    documents,        \* RagRepository.documents: entries in insertion order
    documentChunks,   \* RagRepository.documentChunks: documentId -> chunk records
    vectors,          \* RagRepository.vectors: entries in insertion order
    idCounter,        \* BaseRepository.idCounter
    uuidCounter,      \* number of uuidv4() ids handed out so far
    loadedDocuments,  \* RagService.loadedDocuments: documentId -> chunksCount
    load,             \* the loadDocumentsFromText call in progress
    loadCount,        \* number of loadDocumentsFromText calls started
    lastOp,           \* the operation that produced this state, with getStats() before it
    query,            \* the RagService.query call in progress
    chunker,          \* a processDocument call on its own: input and output
    embedBatch,       \* the generateBatchEmbeddings call in progress
    messages,         \* useMessages: the messages state, a list of object references
    messageObjects,   \* the Message objects the references point to
    debounce          \* a function wrapped by UIService.debounce, its timer and its calls

\* the state of the frontend
frontend == <<messages, messageObjects, debounce>>

vars == <<documents, documentChunks, vectors, idCounter, uuidCounter,
          loadedDocuments, load, loadCount, lastOp, query, chunker, embedBatch,
          frontend>>

(***************************************************************************)
(* Strings                                                                 *)
(***************************************************************************)
Whitespace == {" ", "\n", "\t"}

UpperCase == {"A", "B", "C", "D", "E", "F", "G", "H", "I", "J", "K", "L", "M",
              "N", "O", "P", "Q", "R", "S", "T", "U", "V", "W", "X", "Y", "Z"}

\* the character class [\\.!?] of the sentence-boundary regular expression
SentenceEnd == {"\\", ".", "!", "?"}

Rep(c, n) == [i \in 1..n |-> c]

Indices(s) == [i \in 1..Len(s) |-> i]

\* String.prototype.trim
Trim(s) ==
    LET solid == SelectSeq(Indices(s), LAMBDA i : s[i] \notin Whitespace)
    IN  IF Len(solid) = 0 THEN <<>> ELSE SubSeq(s, solid[1], solid[Len(solid)])

\* text.replace(/\n+/g, '\n').replace(/\s+/g, ' ').trim()
NormalizeText(text) ==
    LET kept == SelectSeq(Indices(text),
                    LAMBDA i : text[i] \notin Whitespace
                               \/ i = 1
                               \/ text[i - 1] \notin Whitespace)
    IN  Trim([j \in 1..Len(kept) |->
                 IF text[kept[j]] \in Whitespace THEN " " ELSE text[kept[j]]])

\* text.split(/\s+/).length: one more than the number of whitespace runs
WordCount(text) ==
    1 + Cardinality({i \in 1..Len(text) :
                        /\ text[i] \in Whitespace
                        /\ (i = 1 \/ text[i - 1] \notin Whitespace)})

(***************************************************************************)
(* Chunker: DocumentProcessorService                                       *)
(***************************************************************************)
DefaultChunkSize == 400
DefaultOverlap == 100
LargeDocumentLength == 50000
SmallDocumentLength == 2000
LargeChunkSize == 600
LargeOverlap == 120
MinSmallChunkSize == 200

\* the first adjustment of calculateOptimalChunkSize, by the size of the
\* document
sizeByLength(contentLength) ==
    IF contentLength > LargeDocumentLength
    THEN [chunkSize |-> LargeChunkSize, overlap |-> LargeOverlap]
    ELSE IF contentLength < SmallDocumentLength
    THEN LET cs == IF contentLength \div 3 > MinSmallChunkSize
                   THEN contentLength \div 3 ELSE MinSmallChunkSize
         IN  [chunkSize |-> cs, overlap |-> (cs * 2) \div 10]
    ELSE [chunkSize |-> DefaultChunkSize, overlap |-> DefaultOverlap]

\* calculateOptimalChunkSize, on document.content.length and the word count.
\* density > 0.15 and density < 0.1 are compared in hundredths; a content of
\* length 0 has density 1/0 = Infinity.
calculateOptimalChunkSize(contentLength, wordCount) ==
    LET sized  == sizeByLength(contentLength)
        dense  == contentLength = 0 \/ wordCount * 100 > 15 * contentLength
        sparse == contentLength > 0 /\ wordCount * 10 < contentLength
    IN  [chunkSize |-> IF dense THEN (sized.chunkSize * 8) \div 10
                       ELSE IF sparse THEN (sized.chunkSize * 12) \div 10
                       ELSE sized.chunkSize,
         overlap   |-> sized.overlap]

\* splitIntoSentences: split(/(?<=[\\.!?])\s+(?=[A-Z])/) on the normalized
\* text, whose whitespace runs are single spaces; the separator is dropped.
splitIntoSentences(text) ==
    LET clean  == NormalizeText(text)
        bounds == SelectSeq(Indices(clean),
                      LAMBDA i : /\ clean[i] = " "
                                 /\ i > 1 /\ clean[i - 1] \in SentenceEnd
                                 /\ i < Len(clean) /\ clean[i + 1] \in UpperCase)
        pieces == [j \in 1..(Len(bounds) + 1) |->
                      SubSeq(clean,
                             IF j = 1 THEN 1 ELSE bounds[j - 1] + 1,
                             IF j = Len(bounds) + 1 THEN Len(clean) ELSE bounds[j] - 1)]
    IN  SelectSeq(pieces, LAMBDA p : Len(Trim(p)) > 0)

\* getOverlapText; text.slice(-0) is the whole text
getOverlapText(text, overlapSize) ==
    IF Len(text) <= overlapSize THEN Append(text, " ")
    ELSE LET overlapText == IF overlapSize = 0 THEN text
                            ELSE SubSeq(text, Len(text) - overlapSize + 1, Len(text))
             spaces      == SelectSeq(Indices(overlapText), LAMBDA i : overlapText[i] = " ")
         IN  IF Len(spaces) > 0
             THEN \* spaceIndex = overlapText.indexOf(' ') is spaces[1]
                  Append(SubSeq(overlapText, spaces[1] + 1, Len(overlapText)), " ")
             ELSE Append(overlapText, " ")

\* the for loop of splitTextIntoChunks starting the next chunk with the
\* overlap alone: the sentence that did not fit is dropped
RECURSIVE accumulateSentencesDropping(_, _, _, _, _, _, _)
accumulateSentencesDropping(sentences, i, chunks, currentChunk, currentSize, chunkSize, overlap) ==
    IF i > Len(sentences)
    THEN IF Len(Trim(currentChunk)) > 0 THEN Append(chunks, Trim(currentChunk)) ELSE chunks
    ELSE LET sentence == sentences[i]
         IN  IF currentSize + Len(sentence) > chunkSize /\ Len(currentChunk) > 0
             THEN LET next == getOverlapText(currentChunk, overlap)
                  IN  accumulateSentencesDropping(sentences, i + 1,
                          Append(chunks, Trim(currentChunk)),
                          next, Len(next), chunkSize, overlap)
             ELSE accumulateSentencesDropping(sentences, i + 1, chunks,
                          currentChunk \o sentence, currentSize + Len(sentence),
                          chunkSize, overlap)

\* the for loop of splitTextIntoChunks from sentence i on
RECURSIVE accumulateSentences(_, _, _, _, _, _, _)
accumulateSentences(sentences, i, chunks, currentChunk, currentSize, chunkSize, overlap) ==
    IF i > Len(sentences)
    THEN IF Len(Trim(currentChunk)) > 0 THEN Append(chunks, Trim(currentChunk)) ELSE chunks
    ELSE LET sentence == sentences[i]
         IN  IF currentSize + Len(sentence) > chunkSize /\ Len(currentChunk) > 0
             THEN LET next == getOverlapText(currentChunk, overlap) \o sentence
                  IN  accumulateSentences(sentences, i + 1,
                          Append(chunks, Trim(currentChunk)),
                          next, Len(next), chunkSize, overlap)
             ELSE accumulateSentences(sentences, i + 1, chunks,
                          currentChunk \o sentence, currentSize + Len(sentence),
                          chunkSize, overlap)

\* splitTextIntoChunks closing a chunk at every sentence, whatever chunkSize
splitTextIntoChunksPerSentence(text, chunkSize, overlap) ==
    IF Len(text) = 0 \/ Len(Trim(text)) = 0 THEN <<>>
    ELSE accumulateSentences(splitIntoSentences(text), 1, <<>>, <<>>, 0, 0, overlap)

splitTextIntoChunks(text, chunkSize, overlap) ==
    IF Len(text) = 0 \/ Len(Trim(text)) = 0 THEN <<>>
    ELSE accumulateSentences(splitIntoSentences(text), 1, <<>>, <<>>, 0, chunkSize, overlap)

\* the k-th uuidv4() and the k-th generateId(): the two never coincide (a
\* uuid against `${Date.now()}-${idCounter}`)
Uuid(k) == <<"uuid", k>>
GeneratedId(k) == <<"gen", k>>

\* processDocument numbering its chunks from 1 instead of 0
processDocumentChunksOneBased(document, uuidBase) ==
    LET optimal == calculateOptimalChunkSize(Len(document.content), WordCount(document.content))
        chunks  == splitTextIntoChunks(document.content, optimal.chunkSize, optimal.overlap)
    IN  [index \in 1..Len(chunks) |->
            [id         |-> Uuid(uuidBase + index),
             text       |-> chunks[index],
             documentId |-> document.id,
             metadata   |-> [documentId    |-> document.id,
                             documentTitle |-> document.title,
                             chunkIndex    |-> index,
                             totalChunks   |-> Len(chunks),
                             chunkSize     |-> Len(chunks[index])]]]

\* processDocument up to the repository call: the chunk records, the j-th
\* carrying the (uuidBase + j)-th uuid
processDocumentChunks(document, uuidBase) ==
    LET optimal == calculateOptimalChunkSize(Len(document.content), WordCount(document.content))
        chunks  == splitTextIntoChunks(document.content, optimal.chunkSize, optimal.overlap)
    IN  [index \in 1..Len(chunks) |->
            [id         |-> Uuid(uuidBase + index),
             text       |-> chunks[index],
             documentId |-> document.id,
             metadata   |-> [documentId    |-> document.id,
                             documentTitle |-> document.title,
                             chunkIndex    |-> index - 1,
                             totalChunks   |-> Len(chunks),
                             chunkSize     |-> Len(chunks[index])]]]

(***************************************************************************)
(* Stores: RagRepository                                                   *)
(***************************************************************************)
\* the loop of calculateCosineSimilarity: the sum of vecA[i] * vecB[i]
RECURSIVE dotProductFrom(_, _, _)
dotProductFrom(vecA, vecB, i) ==
    IF i > Len(vecA) THEN 0
    ELSE vecA[i] * vecB[i] + dotProductFrom(vecA, vecB, i + 1)

\* calculateCosineSimilarity, in hundredths rounded down: 0 on a dimension
\* mismatch or a zero magnitude, else dotProduct / (sqrt(normA) * sqrt(normB))
calculateCosineSimilarity(vecA, vecB) ==
    IF Len(vecA) # Len(vecB) THEN 0
    ELSE LET dotProduct == dotProductFrom(vecA, vecB, 1)
             normA      == dotProductFrom(vecA, vecA, 1)
             normB      == dotProductFrom(vecB, vecB, 1)
         IN  IF normA * normB = 0 THEN 0
             ELSE IF dotProduct >= 0
             THEN CHOOSE x \in 0..100 :
                     /\ x * x * normA * normB <= 10000 * dotProduct * dotProduct
                     /\ (x + 1) * (x + 1) * normA * normB > 10000 * dotProduct * dotProduct
             ELSE -(CHOOSE y \in 0..100 :
                     /\ y * y * normA * normB >= 10000 * dotProduct * dotProduct
                     /\ (y = 0 \/ (y - 1) * (y - 1) * normA * normB
                                    < 10000 * dotProduct * dotProduct))

\* results.sort((a, b) => b.similarity - a.similarity): Array.prototype.sort
\* is stable, so equal scores keep their order
sortBySimilarity(results) ==
    LET rank(i) == Cardinality({j \in 1..Len(results) :
                        \/ results[j].similarity > results[i].similarity
                        \/ (results[j].similarity = results[i].similarity /\ j < i)}) + 1
    IN  [r \in 1..Len(results) |->
            results[CHOOSE i \in 1..Len(results) : rank(i) = r]]

\* Array.prototype.slice(0, n) for n >= 0
SliceTo(s, n) == SubSeq(s, 1, IF n < Len(s) THEN n ELSE Len(s))

\* searchVectors without its sort: the results stay in insertion order
searchVectorsUnsorted(vecs, queryEmbedding, topK, minSimilarity) ==
    LET scored  == [i \in 1..Len(vecs) |->
                       [chunkId    |-> vecs[i].chunkId,
                        documentId |-> vecs[i].documentId,
                        embedding  |-> vecs[i].embedding,
                        text       |-> vecs[i].text,
                        similarity |-> calculateCosineSimilarity(queryEmbedding,
                                                                 vecs[i].embedding)]]
        results == SelectSeq(scored, LAMBDA r : r.similarity >= minSimilarity)
    IN  SliceTo(results, topK)

\* searchVectors over the entries of the vectors map, in insertion order
searchVectors(vecs, queryEmbedding, topK, minSimilarity) ==
    LET scored  == [i \in 1..Len(vecs) |->
                       [chunkId    |-> vecs[i].chunkId,
                        documentId |-> vecs[i].documentId,
                        embedding  |-> vecs[i].embedding,
                        text       |-> vecs[i].text,
                        similarity |-> calculateCosineSimilarity(queryEmbedding,
                                                                 vecs[i].embedding)]]
        results == SelectSeq(scored, LAMBDA r : r.similarity >= minSimilarity)
    IN  SliceTo(sortBySimilarity(results), topK)

\* storeChunks: every chunk gets a fresh generateId(), not the id it was
\* created with; the records are pushed onto the document's list
storeChunks(dc, documentId, chunks, idBase) ==
    LET chunkRecords == [j \in 1..Len(chunks) |->
                            [id         |-> GeneratedId(idBase + j - 1),
                             documentId |-> documentId,
                             text       |-> chunks[j].text,
                             metadata   |-> chunks[j].metadata]]
        existing     == IF documentId \in DOMAIN dc THEN dc[documentId] ELSE <<>>
    IN  [d \in DOMAIN dc \cup {documentId} |->
            IF d = documentId THEN existing \o chunkRecords ELSE dc[d]]

\* storeVectors([chunk]): Map.set keeps the position of a key already present
\* storeVectors as it would be if an existing key were deleted before the
\* set: the entry moves to the end of the map
storeVectorsReinserting(vecs, chunk) ==
    LET entry == [chunkId    |-> chunk.id,
                  documentId |-> chunk.documentId,
                  embedding  |-> chunk.embedding,
                  text       |-> chunk.text]
    IN  Append(SelectSeq(vecs, LAMBDA v : v.chunkId # chunk.id), entry)

storeVectors(vecs, chunk) ==
    LET entry == [chunkId    |-> chunk.id,
                  documentId |-> chunk.documentId,
                  embedding  |-> chunk.embedding,
                  text       |-> chunk.text]
    IN  IF \E i \in 1..Len(vecs) : vecs[i].chunkId = chunk.id
        THEN [i \in 1..Len(vecs) |-> IF vecs[i].chunkId = chunk.id THEN entry ELSE vecs[i]]
        ELSE Append(vecs, entry)

\* deleteDocument: the vectors deleted are those keyed by the ids of the
\* document's records in documentChunks
deleteDocumentVectors(vecs, dc, documentId) ==
    LET chunks == IF documentId \in DOMAIN dc THEN dc[documentId] ELSE <<>>
        ids    == {chunks[j].id : j \in 1..Len(chunks)}
    IN  SelectSeq(vecs, LAMBDA v : v.chunkId \notin ids)

deleteDocumentChunks(dc, documentId) ==
    [d \in DOMAIN dc \ {documentId} |-> dc[d]]

deleteDocumentMetadata(docs, documentId) ==
    SelectSeq(docs, LAMBDA d : d.id # documentId)

\* getStats: chunksCount is the size of the vectors map, as totalVectors is
getStats ==
    [documentsCount |-> Len(documents),
     chunksCount    |-> Len(vectors),
     totalVectors   |-> Len(vectors)]

\* what getStats and the stores hold for a document before an operation
PassageCount(documentId) ==
    IF documentId \in DOMAIN documentChunks THEN Len(documentChunks[documentId]) ELSE 0

VectorCount(documentId) ==
    Cardinality({i \in 1..Len(vectors) : vectors[i].documentId = documentId})

\* a document id that some store holds: documents, documentChunks, vectors
\* or loadedDocuments
IsStoredDocument(documentId) ==
    \/ documentId \in DOMAIN documentChunks
    \/ documentId \in DOMAIN loadedDocuments
    \/ \E i \in 1..Len(documents) : documents[i].id = documentId
    \/ \E i \in 1..Len(vectors) : vectors[i].documentId = documentId

\* the value of lastOp after operation op on arg; result is set by the
\* operations that report one to their caller
OpRecord(op, arg) ==
    [op |-> op, arg |-> arg, before |-> getStats,
     passages |-> PassageCount(arg), docVectors |-> VectorCount(arg),
     stored |-> IsStoredDocument(arg), result |-> "none"]

(***************************************************************************)
(* Inputs and bounds                                                       *)
(***************************************************************************)
MaxLoads == 1
MaxDocsPerLoad == 2

Repeat(unit, n) == [i \in 1..(n * Len(unit)) |-> unit[((i - 1) % Len(unit)) + 1]]

\* "Cats are mammals.": one passage
DocCats == <<"C", "a", "t", "s", " ", "a", "r", "e", " ",
             "m", "a", "m", "m", "a", "l", "s", ".">>

\* "Ab cd ef gh ij kl mn. "
SentenceUnit == <<"A", "b", " ", "c", "d", " ", "e", "f", " ", "g", "h", " ",
                  "i", "j", " ", "k", "l", " ", "m", "n", ".", " ">>

\* nine such sentences: two passages
DocLong == Repeat(SentenceUnit, 9)

\* whitespace only: no passage
DocBlank == <<" ", "\n">>

DocContents == {DocCats, DocLong, DocBlank}

\* what the embedding provider may answer for a text
Embeddings == {<<1, 0>>, <<-1, 0>>}

TextDocId(loadNo, index) == <<"text-doc", loadNo, index>>

IdleLoad == [pc |-> "idle", docs |-> <<>>, chunks |-> <<>>, resolved |-> {},
             failed |-> {}, batchStart |-> 1, result |-> "none"]

IdleQuery ==
    [pc |-> "idle", question |-> <<>>, topK |-> 0, minSimilarity |-> 0,
     maxContextLength |-> 0, includeContext |-> TRUE, category |-> "none",
     embeddings |-> <<>>, generateCalls |-> 0,
     relevantChunks |-> <<>>, fallbackChunks |-> <<>>,
     outcome |-> "none", result |-> "none"]

IdleChunker == [pc |-> "idle"]

IdleEmbedBatch == [pc |-> "idle"]

IdleDebounce == [pc |-> "idle"]

\* no hook is mounted and no function is wrapped
FrontendIdle ==
    /\ messages = <<>>
    /\ messageObjects = <<>>
    /\ debounce = IdleDebounce

(***************************************************************************)
(* Ingestion: RagService.loadDocumentsFromText                             *)
(***************************************************************************)
EmbeddingBatchSize == 10

\* processDocuments: processDocument on each document in turn, each ending
\* with storeChunks; acc carries the chunks so far, documentChunks and the
\* two id counters
RECURSIVE processDocuments(_, _, _)
processDocuments(docs, k, acc) ==
    IF k > Len(docs) THEN acc
    ELSE LET chunks == processDocumentChunks(docs[k], acc.uuid)
         IN  processDocuments(docs, k + 1,
                 [chunks |-> acc.chunks \o chunks,
                  dc     |-> storeChunks(acc.dc, docs[k].id, chunks, acc.idc),
                  idc    |-> acc.idc + Len(chunks),
                  uuid   |-> acc.uuid + Len(chunks)])

\* saveDocument for each document of the load, in order
saveDocuments(stored, docs, idBase) ==
    stored \o [k \in 1..Len(docs) |->
                  [id      |-> GeneratedId(idBase + k - 1),
                   name    |-> docs[k].title,
                   content |-> docs[k].content]]

\* loadedDocuments.set(doc.id, {..., chunksCount})
setLoadedDocuments(loaded, docs, chunks) ==
    LET ids == {docs[k].id : k \in 1..Len(docs)}
    IN  [d \in DOMAIN loaded \cup ids |->
            IF d \in ids
            THEN Cardinality({j \in 1..Len(chunks) : chunks[j].metadata.documentId = d})
            ELSE loaded[d]]

\* loadDocumentsFromText up to the first embedding request: the documents are
\* chunked and their chunks stored; with no chunk at all the call returns.
LoadDocumentsFromText(contents) ==
    /\ load.pc # "embedding"
    /\ LET docs == [k \in 1..Len(contents) |->
                       [id      |-> TextDocId(loadCount + 1, k - 1),
                        title   |-> "t",
                        content |-> contents[k]]]
           done == processDocuments(docs, 1,
                       [chunks |-> <<>>, dc |-> documentChunks,
                        idc |-> idCounter, uuid |-> uuidCounter])
       IN  /\ documentChunks' = done.dc
           /\ idCounter' = done.idc
           /\ uuidCounter' = done.uuid
           /\ load' = IF Len(done.chunks) = 0
                      THEN [IdleLoad EXCEPT !.pc = "done", !.docs = docs,
                                            !.result = "no-content"]
                      ELSE [IdleLoad EXCEPT !.pc = "embedding", !.docs = docs,
                                            !.chunks = done.chunks]
    /\ loadCount' = loadCount + 1
    /\ lastOp' = OpRecord("loadDocumentsFromText", <<>>)
    /\ UNCHANGED <<documents, vectors, loadedDocuments, query, chunker, embedBatch, frontend>>

\* the chunks of the addChunks batch in flight whose embedding is still awaited
Pending ==
    {i \in 1..Len(load.chunks) :
        /\ i >= load.batchStart
        /\ i < load.batchStart + EmbeddingBatchSize
        /\ i \notin load.resolved}

\* what follows the settling of chunk i in the same turn: the next batch when
\* the batch is complete, and after the last batch the metadata of the
\* documents and the return of loadDocumentsFromText
AfterChunkSettled(i, failedNow) ==
    LET resolved  == load.resolved \cup {i}
        batchDone == Pending \subseteq {i}
        lastBatch == load.batchStart + EmbeddingBatchSize > Len(load.chunks)
    IN  IF batchDone /\ lastBatch
        THEN /\ load' = [load EXCEPT !.resolved = resolved, !.failed = failedNow,
                                     !.pc = "done", !.result = "success"]
             /\ loadedDocuments' = setLoadedDocuments(loadedDocuments, load.docs, load.chunks)
             /\ documents' = saveDocuments(documents, load.docs, idCounter)
             /\ idCounter' = idCounter + Len(load.docs)
        ELSE /\ load' = [load EXCEPT !.resolved = resolved, !.failed = failedNow,
                                     !.batchStart = IF batchDone
                                                    THEN @ + EmbeddingBatchSize ELSE @]
             /\ UNCHANGED <<loadedDocuments, documents, idCounter>>

\* addChunks: the embedding of chunk i arrives and the chunk is stored
EmbeddingSucceeds(i, embedding) ==
    /\ load.pc = "embedding"
    /\ i \in Pending
    /\ vectors' = storeVectors(vectors,
                      [id         |-> load.chunks[i].id,
                       documentId |-> load.chunks[i].documentId,
                       text       |-> load.chunks[i].text,
                       embedding  |-> embedding])
    /\ AfterChunkSettled(i, load.failed)
    /\ lastOp' = OpRecord("storeVectors", load.chunks[i].id)
    /\ UNCHANGED <<documentChunks, uuidCounter, loadCount, query, chunker, embedBatch, frontend>>

\* addChunks without the try/catch around a chunk: the failure rejects the
\* batch and loadDocumentsFromText ends with the error
EmbeddingFailsAborting(i) ==
    /\ load.pc = "embedding"
    /\ i \in Pending
    /\ load' = [load EXCEPT !.resolved = @ \cup {i}, !.failed = @ \cup {i},
                            !.pc = "done", !.result = "error"]
    /\ lastOp' = OpRecord("embeddingFailed", load.chunks[i].id)
    /\ UNCHANGED <<documents, documentChunks, vectors, idCounter, uuidCounter,
                   loadedDocuments, loadCount, query, chunker, embedBatch, frontend>>

\* addChunks: the embedding request of chunk i fails; the error is logged
EmbeddingFails(i) ==
    /\ load.pc = "embedding"
    /\ i \in Pending
    /\ AfterChunkSettled(i, load.failed \cup {i})
    /\ lastOp' = OpRecord("embeddingFailed", load.chunks[i].id)
    /\ UNCHANGED <<documentChunks, vectors, uuidCounter, loadCount, query, chunker, embedBatch, frontend>>

(***************************************************************************)
(* Removal and clearing                                                    *)
(***************************************************************************)
\* the ids a caller can know: those of loaded text documents and those the
\* repository gave to saved documents
KnownDocumentIds ==
    {TextDocId(l, k) : l \in 1..loadCount, k \in 0..(MaxDocsPerLoad - 1)}
        \cup {documents[i].id : i \in 1..Len(documents)}

\* RagService.removeDocument: deleteDocument through the vector store
\* service, loadedDocuments.delete, then deleteDocument again (which finds
\* nothing left).  RagController.removeDocument is the repository call alone.
RemoveDocument(documentId) ==
    /\ documents' = deleteDocumentMetadata(documents, documentId)
    /\ vectors' = deleteDocumentVectors(vectors, documentChunks, documentId)
    /\ documentChunks' = deleteDocumentChunks(documentChunks, documentId)
    /\ loadedDocuments' = [d \in DOMAIN loadedDocuments \ {documentId} |-> loadedDocuments[d]]
    /\ lastOp' = [OpRecord("removeDocument", documentId) EXCEPT !.result = "true"]
    /\ UNCHANGED <<idCounter, uuidCounter, load, loadCount, query, chunker, embedBatch, frontend>>

\* a clearAll that leaves the vectors map alone
ClearAllDocumentsKeepingVectors ==
    /\ documents' = <<>>
    /\ documentChunks' = <<>>
    /\ loadedDocuments' = <<>>
    /\ lastOp' = OpRecord("clearAll", <<>>)
    /\ UNCHANGED <<vectors, idCounter, uuidCounter, load, loadCount, query, chunker, embedBatch, frontend>>

\* RagService.clearAllDocuments: clearAll through the vector store service,
\* loadedDocuments.clear, then clearAll again
ClearAllDocuments ==
    /\ documents' = <<>>
    /\ vectors' = <<>>
    /\ documentChunks' = <<>>
    /\ loadedDocuments' = <<>>
    /\ lastOp' = OpRecord("clearAll", <<>>)
    /\ UNCHANGED <<idCounter, uuidCounter, load, loadCount, query, chunker, embedBatch, frontend>>

(***************************************************************************)
(* The store machine                                                       *)
(***************************************************************************)
Init ==
    /\ documents = <<>>
    /\ documentChunks = <<>>
    /\ vectors = <<>>
    /\ idCounter = 1
    /\ uuidCounter = 0
    /\ loadedDocuments = <<>>
    /\ load = IdleLoad
    /\ loadCount = 0
    /\ lastOp = OpRecord("none", <<>>)
    /\ query = IdleQuery
    /\ chunker = IdleChunker
    /\ embedBatch = IdleEmbedBatch
    /\ FrontendIdle

DocumentLists ==
    UNION {[1..n -> DocContents] : n \in 1..MaxDocsPerLoad}

Next ==
    \/ \E contents \in DocumentLists :
          loadCount < MaxLoads /\ LoadDocumentsFromText(contents)
    \/ \E i \in 1..Len(load.chunks), e \in Embeddings : EmbeddingSucceeds(i, e)
    \/ \E i \in 1..Len(load.chunks) : EmbeddingFails(i)
    \/ \E d \in KnownDocumentIds : RemoveDocument(d)
    \/ ClearAllDocuments

Spec == Init /\ [][Next]_vars

(***************************************************************************)
(* Properties of the store machine                                         *)
(***************************************************************************)
\* the searches a caller can make on the stores as they are
SearchResults ==
    {searchVectors(vectors, q, topK, minSimilarity) :
        q \in Embeddings, topK \in {1, 5}, minSimilarity \in {0, 15}}

\* C1: once removeDocument(D) has completed, the vectors map holds no entry
\* whose documentId is D, documentChunks holds no passage of D, and no search
\* returns a passage of D.
C1_NoDanglingAfterRemove ==
    lastOp.op = "removeDocument" =>
        /\ lastOp.arg \notin DOMAIN documentChunks
        /\ \A i \in 1..Len(vectors) : vectors[i].documentId # lastOp.arg
        /\ \A results \in SearchResults :
              \A i \in 1..Len(results) : results[i].documentId # lastOp.arg

\* C5: for a document whose ingestion has finished, with p passages of which
\* v were embedded, getStats after removeDocument reports a passage count
\* lower by exactly p and a vector count lower by exactly v than getStats
\* just before the removal.
C5_StatsReducedByContribution ==
    (lastOp.op = "removeDocument" /\ load.pc = "done") =>
        /\ getStats.chunksCount = lastOp.before.chunksCount - lastOp.passages
        /\ getStats.totalVectors = lastOp.before.totalVectors - lastOp.docVectors

\* C6: when clearAllDocuments has completed, documents, documentChunks,
\* vectors and loadedDocuments are empty whatever came before: getStats
\* reports zero for every count and every search returns the empty list.
C6_ClearEmptiesStores ==
    lastOp.op = "clearAll" =>
        /\ documents = <<>>
        /\ documentChunks = <<>>
        /\ vectors = <<>>
        /\ loadedDocuments = <<>>
        /\ getStats = [documentsCount |-> 0, chunksCount |-> 0, totalVectors |-> 0]
        /\ SearchResults = {<<>>}

\* a clear of stores that held documents and vectors
C6_Witness ==
    /\ lastOp.op = "clearAll"
    /\ lastOp.before.documentsCount > 0
    /\ lastOp.before.totalVectors > 0

C9_NoOrphanedVectors ==
    (load.pc = "done" /\ lastOp.op \in {"storeVectors", "embeddingFailed"}) =>
        \A i \in 1..Len(vectors) :
            /\ vectors[i].documentId \in DOMAIN documentChunks
            /\ Len(documentChunks[vectors[i].documentId]) > 0

\* C20: removeDocument of an id that no store holds (never ingested, or
\* already removed) reports a NotFoundError, not success.
C20_RemoveUnknownReportsNotFound ==
    (lastOp.op = "removeDocument" /\ ~lastOp.stored)
        => lastOp.result = "NotFoundError"

(***************************************************************************)
MaxRepeat == 4

\* three sentences, 66 characters, dense
UnitParagraph == Repeat(SentenceUnit, 3)

\* one sentence of a single 60-character word: sparse
UnitLong == <<"A">> \o Rep("a", 58) \o <<".", " ">>

\* lower-case words and a run of newlines: no sentence boundary
UnitLower == <<"a", "b", " ", "c", "d", "\n", "\n">>

\* whitespace alone
UnitBlank == <<" ", "\n">>

ChunkUnits == {UnitParagraph, UnitLong, UnitLower, UnitBlank}

ChunkerContents ==
    {Repeat(a, m) \o Repeat(b, n) : a \in ChunkUnits, b \in ChunkUnits,
                                    m \in 0..MaxRepeat, n \in 0..MaxRepeat}

ChunkerInit ==
    /\ documents = <<>>
    /\ documentChunks = <<>>
    /\ vectors = <<>>
    /\ idCounter = 1
    /\ uuidCounter = 0
    /\ loadedDocuments = <<>>
    /\ load = IdleLoad
    /\ loadCount = 0
    /\ lastOp = OpRecord("none", <<>>)
    /\ query = IdleQuery
    /\ embedBatch = IdleEmbedBatch
    /\ FrontendIdle
    /\ \E content \in ChunkerContents :
          chunker = [pc       |-> "ready",
                     document |-> [id |-> TextDocId(1, 0), title |-> "t",
                                   content |-> content],
                     chunks   |-> <<>>]

\* processDocument: the chunks are built, stored with storeChunks and returned
ProcessDocument ==
    /\ chunker.pc = "ready"
    /\ LET chunks == processDocumentChunks(chunker.document, uuidCounter)
       IN  /\ chunker' = [chunker EXCEPT !.pc = "done", !.chunks = chunks]
           /\ documentChunks' = storeChunks(documentChunks, chunker.document.id,
                                            chunks, idCounter)
           /\ idCounter' = idCounter + Len(chunks)
           /\ uuidCounter' = uuidCounter + Len(chunks)
    /\ lastOp' = OpRecord("processDocument", chunker.document.id)
    /\ UNCHANGED <<documents, vectors, loadedDocuments, load, loadCount, query,
                   embedBatch, frontend>>

ChunkerNext == ProcessDocument

ChunkerSpec == ChunkerInit /\ [][ChunkerNext]_vars

\* C10: the passages processDocument returns carry the ordinals 0, 1, ...,
\* n-1 in output order and every passage's totalChunks is n, n being the
\* number of passages returned; the records stored for the document carry
\* the same ordinals.
C10_OrdinalsContiguous ==
    chunker.pc = "done" =>
        /\ \A j \in 1..Len(chunker.chunks) :
              /\ chunker.chunks[j].metadata.chunkIndex = j - 1
              /\ chunker.chunks[j].metadata.totalChunks = Len(chunker.chunks)
        /\ Len(documentChunks[chunker.document.id]) = Len(chunker.chunks)
        /\ \A j \in 1..Len(chunker.chunks) :
              documentChunks[chunker.document.id][j].metadata.chunkIndex = j - 1

\* a document chunked into three passages or more
C10_Witness ==
    /\ chunker.pc = "done"
    /\ Len(chunker.chunks) >= 3

(***************************************************************************)
(* splitTextIntoChunks on its own, with the caller's chunkSize and overlap *)
(***************************************************************************)
ChunkSizes == {50, 150}

Overlaps == {0, 10, 30, 200}

SplitInit ==
    /\ documents = <<>>
    /\ documentChunks = <<>>
    /\ vectors = <<>>
    /\ idCounter = 1
    /\ uuidCounter = 0
    /\ loadedDocuments = <<>>
    /\ load = IdleLoad
    /\ loadCount = 0
    /\ lastOp = OpRecord("none", <<>>)
    /\ query = IdleQuery
    /\ embedBatch = IdleEmbedBatch
    /\ FrontendIdle
    /\ \E text \in ChunkerContents :
          chunker = [pc |-> "ready", text |-> text, chunkSize |-> 0,
                     overlap |-> 0, chunks |-> <<>>]

SplitTextIntoChunks(chunkSize, overlap) ==
    /\ chunker.pc = "ready"
    /\ chunker' = [chunker EXCEPT !.pc = "split", !.chunkSize = chunkSize,
                                  !.overlap = overlap,
                                  !.chunks = splitTextIntoChunks(chunker.text,
                                                                 chunkSize, overlap)]
    /\ UNCHANGED <<documents, documentChunks, vectors, idCounter, uuidCounter,
                   loadedDocuments, load, loadCount, lastOp, query, embedBatch, frontend>>

SplitNext ==
    \E chunkSize \in ChunkSizes, overlap \in Overlaps :
        SplitTextIntoChunks(chunkSize, overlap)

SplitSpec == SplitInit /\ [][SplitNext]_vars

\* sentences a..b joined as the loop joins them, with nothing in between
RECURSIVE JoinSentences(_, _, _)
JoinSentences(sentences, a, b) ==
    IF a > b THEN <<>> ELSE sentences[a] \o JoinSentences(sentences, a + 1, b)

IsPrefix(p, t) == Len(p) <= Len(t) /\ SubSeq(t, 1, Len(p)) = p

IsSuffix(p, t) == Len(p) <= Len(t) /\ SubSeq(t, Len(t) - Len(p) + 1, Len(t)) = p

\* passages j.. read back as overlap prefix + core: the core of passage j is
\* the one run of sentences k+1..e that, after the overlap taken from the
\* passage before, gives the passage's text; TRUE when every passage has
\* exactly one such core and the cores use up the sentences
RECURSIVE CoresReconstruct(_, _, _, _, _, _)
CoresReconstruct(sentences, chunks, j, k, previous, overlap) ==
    IF j > Len(chunks) THEN k = Len(sentences)
    ELSE LET prefix == IF j = 1 THEN <<>> ELSE getOverlapText(previous, overlap)
             ends   == {e \in (k + 1)..Len(sentences) :
                           Trim(prefix \o JoinSentences(sentences, k + 1, e)) = chunks[j]}
         IN  /\ Cardinality(ends) = 1
             /\ LET e == CHOOSE e \in ends : TRUE
                IN  CoresReconstruct(sentences, chunks, j + 1, e,
                        prefix \o JoinSentences(sentences, k + 1, e), overlap)

\* C11: for every text, chunkSize and overlap, every sentence of
\* splitIntoSentences lies in exactly one passage core (the passage without
\* the overlap put in front of it), and the cores in passage order are the
\* sentences in their order, none lost and none twice.
C11_CoresReconstructSentences ==
    chunker.pc = "split" =>
        CoresReconstruct(splitIntoSentences(chunker.text), chunker.chunks, 1, 0,
                         <<>>, chunker.overlap)

\* a text split into three passages or more, with an overlap in front of
\* the later ones
C11_Witness ==
    /\ chunker.pc = "split"
    /\ Len(chunker.chunks) >= 3
    /\ chunker.overlap > 0
    /\ Len(splitIntoSentences(chunker.text)) > Len(chunker.chunks)

\* C12: for adjacent passages i and i+1, the overlap put in front of passage
\* i+1 is a suffix of passage i, a prefix of passage i+1 (followed by the
\* separating space), and starts at a word boundary of passage i: at its
\* first character or right after a space.
C12_OverlapInvariant ==
    chunker.pc = "split" =>
        \A j \in 2..Len(chunker.chunks) :
            LET injected == getOverlapText(chunker.chunks[j - 1], chunker.overlap)
                suffix   == SubSeq(injected, 1, Len(injected) - 1)
                before   == Len(chunker.chunks[j - 1]) - Len(suffix)
            IN  /\ IsSuffix(suffix, chunker.chunks[j - 1])
                /\ IsPrefix(injected, chunker.chunks[j])
                /\ before = 0 \/ chunker.chunks[j - 1][before] = " "

\* C13 as stated: a document whose text is not empty and is shorter than
\* the chunk size calculateOptimalChunkSize gives it has exactly one passage.
C13_ShortDocumentOnePassage ==
    (/\ chunker.pc = "done"
     /\ Len(chunker.document.content) > 0
     /\ Len(chunker.document.content) <
            calculateOptimalChunkSize(Len(chunker.document.content),
                                      WordCount(chunker.document.content)).chunkSize)
        => Len(chunker.chunks) = 1

\* C13: a document whose text has a character that is not whitespace and is
\* shorter than the chunk size calculateOptimalChunkSize gives it has
\* exactly one passage; a text of whitespace alone has none.
C13_ShortNonBlankDocumentOnePassage ==
    (/\ chunker.pc = "done"
     /\ Len(chunker.document.content) > 0
     /\ Len(chunker.document.content) <
            calculateOptimalChunkSize(Len(chunker.document.content),
                                      WordCount(chunker.document.content)).chunkSize)
        => /\ Len(Trim(chunker.document.content)) > 0 => Len(chunker.chunks) = 1
           /\ Len(Trim(chunker.document.content)) = 0 => Len(chunker.chunks) = 0

\* a document of several sentences, shorter than its chunk size, in one
\* passage
C13_Witness ==
    /\ chunker.pc = "done"
    /\ Len(chunker.chunks) = 1
    /\ Len(splitIntoSentences(chunker.document.content)) >= 3
    /\ Len(chunker.document.content) <
           calculateOptimalChunkSize(Len(chunker.document.content),
                                     WordCount(chunker.document.content)).chunkSize

(***************************************************************************)
(* Query: RagService.query (dist/services/RagMainService.js)               *)
(***************************************************************************)
MaxStoredDocs == 2
FallbackTopK == 3
PreviewLength == 200

\* "Dogs bark. They run.": two sentences, one passage
DocDogs == <<"D", "o", "g", "s", " ", "b", "a", "r", "k", ".", " ",
             "T", "h", "e", "y", " ", "r", "u", "n", ".">>

QueryContents == {DocCats, DocDogs}

StoredEmbeddings == {<<1, 0>>, <<1, 1>>, <<-1, 0>>}

QueryEmbeddings == {<<1, 0>>, <<0, 1>>}

\* "cats?" and the empty question
Questions == {<<"c", "a", "t", "s", "?">>, <<>>}

TopKs == {1, 5}

\* 0.15 (the default) and 0.99
MinSimilarities == {15, 99}

MaxContextLengths == {10, 18, 4000}

\* no category, or the category "pets"
Categories == {"none", "pets"}

\* the category a text document was uploaded with (metadata.category of
\* uploadDocuments), which loadDocumentsFromText does not copy: the first
\* document of a load is in "pets", the others in "wildlife"
UploadCategory(documentId) ==
    IF documentId[3] = 0 THEN "pets" ELSE "wildlife"

FilterSearchLimit == 100

\* the loop of query citing every chunk it puts in the context, good match
\* or not
RECURSIVE buildContextCitingAll(_, _, _, _, _, _)
buildContextCitingAll(chunks, i, context, sources, maxContextLength, hasGoodMatches) ==
    IF i > Len(chunks) THEN [context |-> context, sources |-> sources]
    ELSE LET chunk == chunks[i]
         IN  IF Len(context) + Len(chunk.text) <= maxContextLength
             THEN buildContextCitingAll(chunks, i + 1,
                      context \o chunk.text \o <<"\n", "\n">>,
                      Append(sources,
                             [documentId    |-> chunk.documentId,
                              documentTitle |-> "Unknown Document",
                              chunkIndex    |-> 0,
                              similarity    |-> chunk.similarity,
                              preview       |-> SliceTo(chunk.text, PreviewLength)]),
                      maxContextLength, hasGoodMatches)
             ELSE buildContextCitingAll(chunks, i + 1, context, sources,
                                        maxContextLength, hasGoodMatches)

\* the loop filling the budget with the head of a chunk that does not fit
RECURSIVE buildContextTruncating(_, _, _, _, _, _)
buildContextTruncating(chunks, i, context, sources, maxContextLength, hasGoodMatches) ==
    IF i > Len(chunks) THEN [context |-> context, sources |-> sources]
    ELSE LET chunk == chunks[i]
         IN  IF Len(context) + Len(chunk.text) <= maxContextLength
             THEN buildContextTruncating(chunks, i + 1,
                      context \o chunk.text \o <<"\n", "\n">>, sources,
                      maxContextLength, hasGoodMatches)
             ELSE buildContextTruncating(chunks, i + 1,
                      context \o SliceTo(chunk.text,
                                         IF maxContextLength > Len(context)
                                         THEN maxContextLength - Len(context) ELSE 0),
                      sources, maxContextLength, hasGoodMatches)

\* the loop testing the context alone, not the context with the chunk added
RECURSIVE buildContextUntilFull(_, _, _, _, _, _)
buildContextUntilFull(chunks, i, context, sources, maxContextLength, hasGoodMatches) ==
    IF i > Len(chunks) THEN [context |-> context, sources |-> sources]
    ELSE LET chunk == chunks[i]
         IN  IF Len(context) <= maxContextLength
             THEN buildContextUntilFull(chunks, i + 1,
                      context \o chunk.text \o <<"\n", "\n">>, sources,
                      maxContextLength, hasGoodMatches)
             ELSE buildContextUntilFull(chunks, i + 1, context, sources,
                                        maxContextLength, hasGoodMatches)

\* the loop of query that builds the context and the sources from chunk i
\* on.  A search result has no metadata (storeVectors does not keep it), so
\* a source's title and chunkIndex fall back to their defaults.
RECURSIVE buildContext(_, _, _, _, _, _)
buildContext(chunks, i, context, sources, maxContextLength, hasGoodMatches) ==
    IF i > Len(chunks) THEN [context |-> context, sources |-> sources]
    ELSE LET chunk == chunks[i]
         IN  IF Len(context) + Len(chunk.text) <= maxContextLength
             THEN buildContext(chunks, i + 1,
                      context \o chunk.text \o <<"\n", "\n">>,
                      IF hasGoodMatches
                      THEN Append(sources,
                               [documentId    |-> chunk.documentId,
                                documentTitle |-> "Unknown Document",
                                chunkIndex    |-> 0,
                                similarity    |-> chunk.similarity,
                                preview       |-> SliceTo(chunk.text, PreviewLength)
                                                  \o IF Len(chunk.text) > PreviewLength
                                                     THEN <<".", ".", ".">> ELSE <<>>])
                      ELSE sources,
                      maxContextLength, hasGoodMatches)
             ELSE buildContext(chunks, i + 1, context, sources,
                               maxContextLength, hasGoodMatches)

\* query throws: its catch block calls handleError, which throws
QueryThrows(q) == [q EXCEPT !.pc = "done", !.outcome = "thrown"]

\* query asking the generative model for an answer whatever the first
\* search found
afterSearchAlwaysAnswering(q, relevantChunks, fallbackChunks) ==
    LET hasGoodMatches == Len(relevantChunks) > 0
        chunksToProcess == IF hasGoodMatches THEN relevantChunks ELSE fallbackChunks
        built == buildContext(chunksToProcess, 1, <<>>, <<>>,
                              q.maxContextLength, hasGoodMatches)
        found == [q EXCEPT !.relevantChunks = relevantChunks,
                           !.fallbackChunks = fallbackChunks]
    IN  IF ~q.includeContext
        THEN [found EXCEPT !.pc = "done", !.outcome = "returned",
                           !.result = [success |-> hasGoodMatches,
                                       answer |-> "undefined",
                                       sources |-> built.sources,
                                       context |-> built.context,
                                       retrievedChunks |-> "undefined"]]
        ELSE [found EXCEPT !.pc = "answering",
                           !.generateCalls = @ + 1,
                           !.result = [success |-> hasGoodMatches,
                                       answer |-> "undefined",
                                       sources |-> built.sources,
                                       context |-> built.context,
                                       retrievedChunks |-> Len(built.sources)]]

\* query from the end of the searches to its return or to the request to
\* the generative model
afterSearch(q, relevantChunks, fallbackChunks) ==
    LET hasGoodMatches == Len(relevantChunks) > 0
        chunksToProcess == IF hasGoodMatches THEN relevantChunks ELSE fallbackChunks
        built == buildContext(chunksToProcess, 1, <<>>, <<>>,
                              q.maxContextLength, hasGoodMatches)
        found == [q EXCEPT !.relevantChunks = relevantChunks,
                           !.fallbackChunks = fallbackChunks]
    IN  IF ~q.includeContext
        THEN [found EXCEPT !.pc = "done", !.outcome = "returned",
                           !.result = [success |-> hasGoodMatches,
                                       answer |-> "undefined",
                                       sources |-> built.sources,
                                       context |-> built.context,
                                       retrievedChunks |-> "undefined"]]
        ELSE IF hasGoodMatches
        THEN [found EXCEPT !.pc = "answering",
                           !.generateCalls = @ + 1,
                           !.result = [success |-> TRUE,
                                       answer |-> "undefined",
                                       sources |-> built.sources,
                                       context |-> built.context,
                                       retrievedChunks |-> Len(built.sources)]]
        ELSE [found EXCEPT !.pc = "done", !.outcome = "returned",
                           !.result = [success |-> FALSE,
                                       answer |-> "undefined",
                                       sources |-> built.sources,
                                       context |-> built.context,
                                       retrievedChunks |-> Len(built.sources)]]

\* searchWithFilter after its embedding arrived: similaritySearch for 100
\* results, the filters it knows (documentId; documentTitle and minChunkSize
\* are never passed by query), then slice(0, topK).  A filter absent from
\* the filters object is "none"; filters.category is read nowhere.
searchWithFilter(vecs, queryEmbedding, topK, filters, minSimilarity) ==
    LET allResults == searchVectors(vecs, queryEmbedding, FilterSearchLimit, minSimilarity)
        filteredResults ==
            IF filters.documentId # "none"
            THEN SelectSeq(allResults, LAMBDA chunk : chunk.documentId = filters.documentId)
            ELSE allResults
    IN  SliceTo(filteredResults, topK)

\* the search of query: filtered when a category is given
querySearch(q, vecs, embedding, topK, minSimilarity) ==
    IF q.category # "none"
    THEN searchWithFilter(vecs, embedding, topK,
                          [documentId |-> "none", category |-> q.category],
                          minSimilarity)
    ELSE searchVectors(vecs, embedding, topK, minSimilarity)

\* the first search has its embedding: the search with the caller's
\* options; with no result the fallback search asks for an embedding again
onQueryEmbedding(q, vecs, embedding) ==
    LET results == querySearch(q, vecs, embedding, q.topK, q.minSimilarity)
        got     == [q EXCEPT !.embeddings = Append(@, embedding)]
    IN  IF Len(results) > 0 THEN afterSearch(got, results, <<>>)
        ELSE [got EXCEPT !.pc = "fallbackEmbedding"]

\* the fallback search has its embedding: at most min(topK, 3) results of
\* any similarity >= 0
onFallbackEmbedding(q, vecs, embedding) ==
    afterSearch([q EXCEPT !.embeddings = Append(@, embedding)], <<>>,
                querySearch(q, vecs, embedding,
                            IF q.topK < FallbackTopK THEN q.topK ELSE FallbackTopK, 0))

QueryFrame ==
    UNCHANGED <<documents, documentChunks, vectors, idCounter, uuidCounter,
                loadedDocuments, load, loadCount, lastOp, chunker, embedBatch, frontend>>

\* query is called; similaritySearch validates the question and asks the
\* provider for its embedding
\* query as it would run if similaritySearch did not validate the question
StartQueryUnvalidated(question, topK, minSimilarity, maxContextLength, includeContext, category) ==
    /\ query.pc = "idle"
    /\ query' = [IdleQuery EXCEPT !.question = question, !.topK = topK,
                                  !.minSimilarity = minSimilarity,
                                  !.maxContextLength = maxContextLength,
                                  !.includeContext = includeContext,
                                  !.category = category,
                                  !.pc = "embedding"]
    /\ QueryFrame

StartQuery(question, topK, minSimilarity, maxContextLength, includeContext, category) ==
    /\ query.pc = "idle"
    /\ LET q == [IdleQuery EXCEPT !.question = question, !.topK = topK,
                                  !.minSimilarity = minSimilarity,
                                  !.maxContextLength = maxContextLength,
                                  !.includeContext = includeContext,
                                  !.category = category]
       IN  query' = IF Len(question) = 0 THEN QueryThrows(q)
                    ELSE [q EXCEPT !.pc = "embedding"]
    /\ QueryFrame

QueryEmbeddingArrives(embedding) ==
    /\ query.pc = "embedding"
    /\ query' = onQueryEmbedding(query, vectors, embedding)
    /\ QueryFrame

FallbackEmbeddingArrives(embedding) ==
    /\ query.pc = "fallbackEmbedding"
    /\ query' = onFallbackEmbedding(query, vectors, embedding)
    /\ QueryFrame

QueryEmbeddingFails ==
    /\ query.pc \in {"embedding", "fallbackEmbedding"}
    /\ query' = QueryThrows(query)
    /\ QueryFrame

GenerateResponseArrives ==
    /\ query.pc = "answering"
    /\ query' = [query EXCEPT !.pc = "done", !.outcome = "returned",
                              !.result.answer = "answer"]
    /\ QueryFrame

GenerateResponseFails ==
    /\ query.pc = "answering"
    /\ query' = QueryThrows(query)
    /\ QueryFrame

\* the stores as loadDocumentsFromText leaves them for single-passage
\* documents whose embeddings all arrived, in order
RECURSIVE storeAllVectors(_, _, _, _)
storeAllVectors(vecs, chunks, embeddings, i) ==
    IF i > Len(chunks) THEN vecs
    ELSE storeAllVectors(
             storeVectors(vecs, [id         |-> chunks[i].id,
                                 documentId |-> chunks[i].documentId,
                                 text       |-> chunks[i].text,
                                 embedding  |-> embeddings[i]]),
             chunks, embeddings, i + 1)

\* the document lists a store is loaded from: up to MaxStoredDocs documents
\* of one passage, or the one document of two passages
QueryDocumentLists ==
    UNION {[1..n -> QueryContents] : n \in 0..MaxStoredDocs} \cup {<<DocLong>>}

QueryInit ==
    \E contents \in QueryDocumentLists :
      LET n    == Len(contents)
          docs == [k \in 1..n |-> [id |-> TextDocId(1, k - 1), title |-> "t",
                                   content |-> contents[k]]]
          done == processDocuments(docs, 1, [chunks |-> <<>>, dc |-> <<>>,
                                             idc |-> 1, uuid |-> 0])
      IN \E embeddings \in [1..Len(done.chunks) -> StoredEmbeddings] :
            /\ documentChunks = done.dc
            /\ uuidCounter = done.uuid
            /\ vectors = storeAllVectors(<<>>, done.chunks, embeddings, 1)
            /\ documents = IF n = 0 THEN <<>> ELSE saveDocuments(<<>>, docs, done.idc)
            /\ idCounter = done.idc + n
            /\ loadedDocuments = IF n = 0 THEN <<>>
                                 ELSE setLoadedDocuments(<<>>, docs, done.chunks)
            /\ load = IF n = 0 THEN [IdleLoad EXCEPT !.pc = "done", !.result = "no-content"]
                      ELSE [IdleLoad EXCEPT !.pc = "done", !.docs = docs,
                                            !.chunks = done.chunks,
                                            !.resolved = 1..Len(done.chunks),
                                            !.result = "success"]
            /\ loadCount = 1
            /\ lastOp = OpRecord("none", <<>>)
            /\ query = IdleQuery
            /\ chunker = IdleChunker
            /\ embedBatch = IdleEmbedBatch
            /\ FrontendIdle

QueryNext ==
    \/ \E question \in Questions, topK \in TopKs, minSimilarity \in MinSimilarities,
          maxContextLength \in MaxContextLengths, includeContext \in BOOLEAN,
          category \in Categories :
          StartQuery(question, topK, minSimilarity, maxContextLength, includeContext,
                     category)
    \/ \E e \in QueryEmbeddings : QueryEmbeddingArrives(e)
    \/ \E e \in QueryEmbeddings : FallbackEmbeddingArrives(e)
    \/ QueryEmbeddingFails
    \/ GenerateResponseArrives
    \/ GenerateResponseFails

QuerySpec == QueryInit /\ [][QueryNext]_vars

(***************************************************************************)
(* Properties of query                                                     *)
(***************************************************************************)
\* C2: for every store, query embedding, topK and minSimilarity,
\* searchVectors returns at most topK results, each with a score of at
\* least minSimilarity, in non-increasing order of score; the results of
\* the searches a query made are such lists.
C2_SearchOrdered ==
    \A q \in QueryEmbeddings, topK \in TopKs, minSimilarity \in MinSimilarities \cup {0} :
        LET results == searchVectors(vectors, q, topK, minSimilarity)
        IN  /\ Len(results) <= topK
            /\ \A i \in 1..Len(results) : results[i].similarity >= minSimilarity
            /\ \A i \in 1..(Len(results) - 1) :
                  results[i].similarity >= results[i + 1].similarity
            /\ (/\ Len(query.embeddings) = 1
                /\ q = query.embeddings[1] /\ topK = query.topK
                /\ minSimilarity = query.minSimilarity
                /\ Len(query.relevantChunks) > 0)
                    => query.relevantChunks = results

\* a query whose search returned two passages in the reverse of the order
\* in which they were stored
C2_Witness ==
    /\ Len(query.relevantChunks) = 2
    /\ Len(vectors) = 2
    /\ query.relevantChunks[1].chunkId = vectors[2].chunkId
    /\ query.relevantChunks[1].similarity > query.relevantChunks[2].similarity

\* a query that returned without a good match
NoMatchFallback ==
    /\ query.pc = "done"
    /\ query.outcome = "returned"
    /\ Len(query.relevantChunks) = 0

\* the fallback search of the query: its embedding is the second received
FallbackResults ==
    searchVectors(vectors, query.embeddings[2],
                  IF query.topK < FallbackTopK THEN query.topK ELSE FallbackTopK, 0)

C4_GenerateOnlyOnGoodMatch ==
    /\ query.generateCalls <= 1
    /\ query.generateCalls = 1 =>
          /\ Len(query.embeddings) = 1
          /\ Len(query.relevantChunks) > 0
          /\ query.relevantChunks = searchVectors(vectors, query.embeddings[1],
                                                  query.topK, query.minSimilarity)
          /\ query.includeContext
    /\ query.pc \in {"idle", "embedding", "fallbackEmbedding"} => query.generateCalls = 0
    /\ (Len(query.embeddings) = 2 \/ NoMatchFallback) => query.generateCalls = 0
    /\ query.pc = "answering" => query.generateCalls = 1

\* a query that asked the generative model and returned its answer
C4_Witness ==
    /\ query.pc = "done"
    /\ query.outcome = "returned"
    /\ query.generateCalls = 1
    /\ query.result.answer = "answer"

\* C7: a query with a question never throws: when the embedding request or
\* the generative model fails it returns a result with success = false and
\* no answer.
C7_QueryNeverThrows ==
    (query.pc = "done" /\ Len(query.question) > 0) =>
        /\ query.outcome = "returned"
        /\ (Len(query.relevantChunks) = 0 /\ Len(query.fallbackChunks) = 0)
              => query.result.success = FALSE

\* the passages of chunks, from the i-th on, whose text the loop of query
\* appends to a context that already holds used characters
RECURSIVE ContextPassages(_, _, _, _)
ContextPassages(chunks, i, used, maxContextLength) ==
    IF i > Len(chunks) THEN <<>>
    ELSE IF used + Len(chunks[i].text) <= maxContextLength
    THEN <<chunks[i]>> \o ContextPassages(chunks, i + 1, used + Len(chunks[i].text) + 2,
                                          maxContextLength)
    ELSE ContextPassages(chunks, i + 1, used, maxContextLength)

\* the passages in the context of the query that returned
ReturnedContextPassages ==
    ContextPassages(IF Len(query.relevantChunks) > 0 THEN query.relevantChunks
                    ELSE query.fallbackChunks,
                    1, 0, query.maxContextLength)

QueryReturned ==
    /\ query.pc = "done"
    /\ query.outcome = "returned"

\* C15: when a query carries a category, every passage in its sources or in
\* its context belongs to a document uploaded with that category.
C15_CategoryPostFilter ==
    (QueryReturned /\ query.category # "none") =>
        /\ \A i \in 1..Len(query.result.sources) :
              UploadCategory(query.result.sources[i].documentId) = query.category
        /\ \A i \in 1..Len(ReturnedContextPassages) :
              UploadCategory(ReturnedContextPassages[i].documentId) = query.category

\* C16: in the result of a query that asks for an answer, with a good match
\* or in the fallback, retrievedChunks is the number of passages whose text
\* was appended to the context.
C16_RetrievedChunksCountsContext ==
    (QueryReturned /\ query.includeContext) =>
        query.result.retrievedChunks = Len(ReturnedContextPassages)

\* C17: with a good match, every source names the document and the ordinal
\* (chunkIndex) of the stored passage whose text it previews, and carries
\* the similarity of that passage.
C17_SourcesCiteStoredPassage ==
    (QueryReturned /\ Len(query.relevantChunks) > 0) =>
        /\ Len(query.result.sources) = Len(ReturnedContextPassages)
        /\ \A i \in 1..Len(query.result.sources) :
              LET source == query.result.sources[i]
              IN  /\ source.documentId \in DOMAIN documentChunks
                  /\ source.similarity = ReturnedContextPassages[i].similarity
                  /\ \E j \in 1..Len(documentChunks[source.documentId]) :
                        LET passage == documentChunks[source.documentId][j]
                        IN  /\ passage.text = ReturnedContextPassages[i].text
                            /\ IsPrefix(SliceTo(passage.text, PreviewLength),
                                        source.preview)
                            /\ source.chunkIndex = passage.metadata.chunkIndex

\* C21: a query with an empty question is rejected by validateInput before
\* any external call: it ends thrown, no embedding was requested or received
\* and the generative model was never called.
C21_EmptyQuestionRejectedFirst ==
    (query.pc # "idle" /\ Len(query.question) = 0) =>
        /\ query.pc = "done"
        /\ query.outcome = "thrown"
        /\ query.embeddings = <<>>
        /\ query.generateCalls = 0

C21_Witness ==
    /\ query.pc = "done"
    /\ Len(query.question) = 0
    /\ query.outcome = "thrown"
    /\ Len(vectors) > 0

\* the ranked list the context of the query was built from
ChunksToProcess ==
    IF Len(query.relevantChunks) > 0 THEN query.relevantChunks ELSE query.fallbackChunks

\* the texts of the chunks numbered in I, from chunk i on, in list order, each
\* followed by the separator
RECURSIVE JoinPassages(_, _, _)
JoinPassages(chunks, I, i) ==
    IF i > Len(chunks) THEN <<>>
    ELSE (IF i \in I THEN chunks[i].text \o <<"\n", "\n">> ELSE <<>>)
             \o JoinPassages(chunks, I, i + 1)

\* the combined length of the texts of the chunks numbered in I, from i on
RECURSIVE PassagesLength(_, _, _)
PassagesLength(chunks, I, i) ==
    IF i > Len(chunks) THEN 0
    ELSE (IF i \in I THEN Len(chunks[i].text) ELSE 0) + PassagesLength(chunks, I, i + 1)

\* the choices of passages whose whole texts, in ranked order, make up the
\* returned context
ContextSelections ==
    {I \in SUBSET (1..Len(ChunksToProcess)) :
        query.result.context = JoinPassages(ChunksToProcess, I, 1)}

\* C25: the returned context is made of whole passage texts of the ranked
\* list, in ranked order; every passage left out is one that did not fit
\* behind the passages taken before it; no passage is cut.
C25_ContextOfWholePassages ==
    QueryReturned =>
        \E I \in ContextSelections :
            \A i \in (1..Len(ChunksToProcess)) \ I :
                Len(JoinPassages(ChunksToProcess, {j \in I : j < i}, 1))
                    + Len(ChunksToProcess[i].text) > query.maxContextLength

\* a context with a passage taken and a passage left out
C25_Witness ==
    /\ QueryReturned
    /\ Len(ChunksToProcess) = 2
    /\ \E I \in ContextSelections : Cardinality(I) = 1
    /\ Len(query.result.context) > 0

\* C26: the combined length of the passage texts placed in the context is at
\* most maxContextLength.
C26_PassagesWithinBudget ==
    QueryReturned =>
        /\ ContextSelections # {}
        /\ \A I \in ContextSelections :
              PassagesLength(ChunksToProcess, I, 1) <= query.maxContextLength

\* a context of two passages, and a budget that one passage fills but for
\* one character
C26_Witness ==
    /\ QueryReturned
    /\ \/ \E I \in ContextSelections : Cardinality(I) = 2
       \/ \E I \in ContextSelections :
             /\ I # {}
             /\ PassagesLength(ChunksToProcess, I, 1) + 1 = query.maxContextLength

\* C27: the returned context string, separators included, is no longer than
\* maxContextLength.
C27_ContextStringWithinBudget ==
    QueryReturned => Len(query.result.context) <= query.maxContextLength

(***************************************************************************)
(* Re-ingestion and reprocessing, with a deterministic embedding provider  *)
(***************************************************************************)
MaxPassagesPerDocument == 4

\* the embedding a deterministic provider gives a text
ProviderEmbedding(text) == <<1, Len(text) % 3>>

\* reprocessDocument: the document is read from documents; the loop over its
\* existing chunks deletes nothing (the deleteChunk call is commented out);
\* processDocument chunks it again and storeChunks pushes the new records
\* onto the document's list.  An id unknown to documents makes it throw.
ReprocessDocument(documentId) ==
    IF \E i \in 1..Len(documents) : documents[i].id = documentId
    THEN LET stored   == documents[CHOOSE i \in 1..Len(documents) :
                                      documents[i].id = documentId]
             document == [id |-> stored.id, title |-> "Untitled",
                          content |-> stored.content]
             chunks   == processDocumentChunks(document, uuidCounter)
         IN  /\ PassageCount(documentId) + Len(chunks) <= MaxPassagesPerDocument
             /\ documentChunks' = storeChunks(documentChunks, documentId, chunks, idCounter)
             /\ idCounter' = idCounter + Len(chunks)
             /\ uuidCounter' = uuidCounter + Len(chunks)
             /\ lastOp' = [OpRecord("reprocessDocument", documentId)
                              EXCEPT !.result = "returned"]
             /\ UNCHANGED <<documents, vectors, loadedDocuments, load, loadCount,
                            query, chunker, embedBatch, frontend>>
    ELSE /\ lastOp.op # "reprocessDocument"
         /\ lastOp' = [OpRecord("reprocessDocument", documentId)
                          EXCEPT !.result = "thrown"]
         /\ UNCHANGED <<documents, documentChunks, vectors, idCounter, uuidCounter,
                        loadedDocuments, load, loadCount, query, chunker, embedBatch, frontend>>

\* the documents of the finished first load have been removed and the same
\* texts are loaded again
IngestAgain ==
    /\ loadCount = 1
    /\ load.pc = "done"
    /\ Len(load.docs) > 0
    /\ \A k \in 1..Len(load.docs) :
          ~(load.docs[k].id \in DOMAIN documentChunks \cup DOMAIN loadedDocuments)
    /\ LoadDocumentsFromText([k \in 1..Len(load.docs) |-> load.docs[k].content])

\* one document is uploaded; once its ingestion has finished, documents are
\* removed and reprocessed, and the upload is repeated
MaintenanceNext ==
    \/ \E content \in DocContents :
          loadCount = 0 /\ LoadDocumentsFromText(<<content>>)
    \/ \E i \in 1..Len(load.chunks) :
          EmbeddingSucceeds(i, ProviderEmbedding(load.chunks[i].text))
    \/ \E d \in KnownDocumentIds : load.pc = "done" /\ RemoveDocument(d)
    \/ IngestAgain
    \/ \E d \in KnownDocumentIds : load.pc = "done" /\ ReprocessDocument(d)

MaintenanceSpec == Init /\ [][MaintenanceNext]_vars

\* the vectors one ingestion of the chunks of the load leaves in an empty
\* store
FirstIngestionVectors ==
    storeAllVectors(<<>>, load.chunks,
                    [i \in 1..Len(load.chunks) |-> ProviderEmbedding(load.chunks[i].text)], 1)

\* the texts and scores of a result list
RankedTexts(results) ==
    {[text |-> results[i].text, similarity |-> results[i].similarity] :
        i \in 1..Len(results)}

\* C18: after ingesting a content, removing its document and ingesting the
\* same content again, every document has the passage count of its first
\* ingestion and every search returns as many passages as after the first
\* ingestion, with the same texts and scores.
C18_ReingestIdempotent ==
    (loadCount = 2 /\ load.pc = "done" /\ load.result = "success") =>
        /\ \A k \in 1..Len(load.docs) :
              PassageCount(load.docs[k].id)
                  = Len(processDocumentChunks(load.docs[k], 0))
        /\ \A q \in Embeddings, minSimilarity \in {0, 15} :
              LET now   == searchVectors(vectors, q, 5, minSimilarity)
                  first == searchVectors(FirstIngestionVectors, q, 5, minSimilarity)
              IN  /\ Len(now) = Len(first)
                  /\ RankedTexts(now) = RankedTexts(first)

\* C19: when reprocessDocument(D) has returned, documentChunks holds for D
\* exactly the passages of the new chunking, each ordinal 0..n-1 once, and
\* none of the passages it held for D before.
C19_ReprocessReplacesChunks ==
    (lastOp.op = "reprocessDocument" /\ lastOp.result = "returned") =>
        LET passages == documentChunks[lastOp.arg]
        IN  \A j \in 1..Len(passages) :
                  /\ passages[j].metadata.chunkIndex = j - 1
                  /\ passages[j].metadata.totalChunks = Len(passages)

(***************************************************************************)
(* The vector store on its own: storeVectors and searchVectors called with  *)
(* any passage id, so that an existing id is stored again                  *)
(***************************************************************************)
MaxVectorIds == 3

SearchTopKs == 0..MaxVectorIds

SearchMinSimilarities == {0, 15}

\* lastOp holds the last call and its result, firstInserted: the passage ids
\* in the order in which each was first stored, and storedAgain: whether an
\* id already in the map was stored again
SearchInit ==
    /\ documents = <<>>
    /\ documentChunks = <<>>
    /\ vectors = <<>>
    /\ idCounter = 1
    /\ uuidCounter = 0
    /\ loadedDocuments = <<>>
    /\ load = IdleLoad
    /\ loadCount = 0
    /\ lastOp = [op |-> "none", firstInserted |-> <<>>, storedAgain |-> FALSE,
                 queryEmbedding |-> <<>>, topK |-> 0, minSimilarity |-> 0,
                 result |-> <<>>]
    /\ query = IdleQuery
    /\ chunker = IdleChunker
    /\ embedBatch = IdleEmbedBatch
    /\ FrontendIdle

SearchFrame ==
    UNCHANGED <<documents, documentChunks, idCounter, uuidCounter, loadedDocuments,
                load, loadCount, query, chunker, embedBatch, frontend>>

\* storeVectors([chunk]) for a chunk that carries an embedding
StoreVectors(n, embedding) ==
    /\ vectors' = storeVectors(vectors, [id         |-> Uuid(n),
                                         documentId |-> TextDocId(1, 0),
                                         text       |-> <<"t">>,
                                         embedding  |-> embedding])
    /\ lastOp' = [op |-> "storeVectors",
                  firstInserted |->
                      IF \E p \in 1..Len(lastOp.firstInserted) :
                             lastOp.firstInserted[p] = Uuid(n)
                      THEN lastOp.firstInserted
                      ELSE Append(lastOp.firstInserted, Uuid(n)),
                  storedAgain |->
                      \/ lastOp.storedAgain
                      \/ \E i \in 1..Len(vectors) : vectors[i].chunkId = Uuid(n),
                  queryEmbedding |-> <<>>, topK |-> 0, minSimilarity |-> 0,
                  result |-> <<>>]
    /\ SearchFrame

SearchVectors(queryEmbedding, topK, minSimilarity) ==
    /\ lastOp' = [op |-> "searchVectors",
                  firstInserted |-> lastOp.firstInserted,
                  storedAgain |-> lastOp.storedAgain,
                  queryEmbedding |-> queryEmbedding, topK |-> topK,
                  minSimilarity |-> minSimilarity,
                  result |-> searchVectors(vectors, queryEmbedding, topK, minSimilarity)]
    /\ UNCHANGED vectors
    /\ SearchFrame

SearchNext ==
    \/ \E n \in 1..MaxVectorIds, e \in StoredEmbeddings : StoreVectors(n, e)
    \/ \E q \in QueryEmbeddings, topK \in SearchTopKs, m \in SearchMinSimilarities :
          SearchVectors(q, topK, m)

SearchSpec == SearchInit /\ [][SearchNext]_vars

\* the score of a stored vector against the query of the last search
SearchScore(v) == calculateCosineSimilarity(lastOp.queryEmbedding, v.embedding)

\* the stored vectors that meet the threshold of the last search
Qualifying == {i \in 1..Len(vectors) : SearchScore(vectors[i]) >= lastOp.minSimilarity}

FirstInsertedAt(chunkId) ==
    CHOOSE p \in 1..Len(lastOp.firstInserted) : lastOp.firstInserted[p] = chunkId

\* a is ranked ahead of b: a higher score, or the same score and inserted
\* first
RankedAhead(a, b) ==
    \/ SearchScore(a) > SearchScore(b)
    \/ /\ SearchScore(a) = SearchScore(b)
       /\ FirstInsertedAt(a.chunkId) < FirstInsertedAt(b.chunkId)

\* C22: a search returns the first topK of the stored vectors that meet the
\* threshold, ranked by descending score and, at equal scores, by the order
\* in which their ids were first inserted: every returned entry is a stored
\* vector with its score, and every vector left out ranks behind every
\* returned one.
C22_SearchIsStableTopK ==
    lastOp.op = "searchVectors" =>
        LET r == lastOp.result
        IN  /\ Len(r) = IF lastOp.topK < Cardinality(Qualifying)
                        THEN lastOp.topK ELSE Cardinality(Qualifying)
            /\ \A k \in 1..Len(r) : \E i \in Qualifying :
                  /\ vectors[i].chunkId = r[k].chunkId
                  /\ vectors[i].embedding = r[k].embedding
                  /\ r[k].similarity = SearchScore(vectors[i])
            /\ \A k, l \in 1..Len(r) : k < l => RankedAhead(r[k], r[l])
            /\ \A i \in Qualifying :
                  (\A k \in 1..Len(r) : r[k].chunkId # vectors[i].chunkId)
                      => \A k \in 1..Len(r) : RankedAhead(r[k], vectors[i])

\* a search that truncates, after an existing id was stored again, with two
\* equal scores in the result
C22_Witness ==
    /\ lastOp.op = "searchVectors"
    /\ lastOp.storedAgain
    /\ Len(lastOp.result) = 2
    /\ Cardinality(Qualifying) = 3
    /\ lastOp.result[1].similarity = lastOp.result[2].similarity
    /\ \E i \in 1..Len(vectors) :
          /\ vectors[i].chunkId = lastOp.result[1].chunkId
          /\ FirstInsertedAt(vectors[i].chunkId) = 1
          /\ vectors[i].embedding = <<1, 1>>

(***************************************************************************)
(* generateBatchEmbeddings (VectorStoreService)                            *)
(***************************************************************************)
MaxTexts == 3
EmbedInputLimit == 8000

\* "a", "b" and the empty text
BatchTexts == {<<"a">>, <<"b">>, <<>>}

BatchSizes == {1, 2, 3}

StoreFrame ==
    UNCHANGED <<documents, documentChunks, vectors, idCounter, uuidCounter,
                loadedDocuments, load, loadCount, lastOp, query, chunker, frontend>>

\* what the provider answers for a text: the embedding of its first 8000
\* characters
EmbeddingOf(text) == [input |-> SliceTo(text, EmbedInputLimit)]

\* the indices of texts.slice(i, i + batchSize), i counted from 0
BatchIndices(b) ==
    {j \in 1..Len(b.texts) : j > b.i /\ j <= b.i + b.batchSize}

\* the loop body up to its await: generateEmbedding is called on every text
\* of the batch, and its provider call is in flight; validateInput rejects an
\* empty text before the provider is called, and Promise.all rejects with it
startBatch(b) ==
    IF \E j \in BatchIndices(b) : Len(b.texts[j]) = 0
    THEN [b EXCEPT !.pc = "thrown",
                   !.inFlight = {j \in BatchIndices(b) : Len(b.texts[j]) > 0}]
    ELSE [b EXCEPT !.pc = "awaiting", !.results = <<>>,
                   !.inFlight = BatchIndices(b)]

\* afterBatch sleeping after every batch, the last one too
afterBatchAlwaysSleeping(b, results) ==
    LET batchEmbeddings == [n \in 1..Cardinality(BatchIndices(b)) |-> results[b.i + n]]
    IN  [b EXCEPT !.embeddings = @ \o batchEmbeddings, !.results = <<>>,
                  !.pc = "sleeping"]

\* Promise.all has resolved: its array is in the order of the promises
afterBatch(b, results) ==
    LET batchEmbeddings == [n \in 1..Cardinality(BatchIndices(b)) |-> results[b.i + n]]
        pushed == [b EXCEPT !.embeddings = @ \o batchEmbeddings, !.results = <<>>]
    IN  IF b.i + b.batchSize < Len(b.texts)
        THEN [pushed EXCEPT !.pc = "sleeping"]
        ELSE [pushed EXCEPT !.pc = "done"]

BatchInit ==
    /\ documents = <<>>
    /\ documentChunks = <<>>
    /\ vectors = <<>>
    /\ idCounter = 1
    /\ uuidCounter = 0
    /\ loadedDocuments = <<>>
    /\ load = IdleLoad
    /\ loadCount = 0
    /\ lastOp = OpRecord("none", <<>>)
    /\ query = IdleQuery
    /\ chunker = IdleChunker
    /\ FrontendIdle
    /\ \E n \in 0..MaxTexts : \E texts \in [1..n -> BatchTexts], batchSize \in BatchSizes :
          embedBatch = [pc |-> "ready", texts |-> texts, batchSize |-> batchSize,
                        i |-> 0, results |-> <<>>, embeddings |-> <<>>,
                        order |-> <<>>, providerFailed |-> FALSE,
                        inFlight |-> {}, sleeps |-> 0]

\* generateBatchEmbeddings is called: the first batch, or [] for no text
GenerateBatchEmbeddings ==
    /\ embedBatch.pc = "ready"
    /\ embedBatch' = IF Len(embedBatch.texts) = 0
                     THEN [embedBatch EXCEPT !.pc = "done"]
                     ELSE startBatch(embedBatch)
    /\ StoreFrame

\* a generateBatchEmbeddings that pushes each embedding onto the result
\* when its provider call settles, instead of the array of Promise.all
ProviderResolvesInCompletionOrder(j) ==
    /\ embedBatch.pc = "awaiting"
    /\ j \in BatchIndices(embedBatch) \ DOMAIN embedBatch.results
    /\ LET results == [k \in DOMAIN embedBatch.results \cup {j} |->
                          IF k = j THEN EmbeddingOf(embedBatch.texts[j])
                          ELSE embedBatch.results[k]]
           settled == [embedBatch EXCEPT !.results = results,
                                         !.order = Append(@, j),
                                         !.inFlight = @ \ {j},
                                         !.embeddings = Append(@, EmbeddingOf(embedBatch.texts[j]))]
       IN  embedBatch' =
               IF DOMAIN results = BatchIndices(embedBatch)
               THEN IF embedBatch.i + embedBatch.batchSize < Len(embedBatch.texts)
                    THEN [settled EXCEPT !.pc = "sleeping", !.results = <<>>]
                    ELSE [settled EXCEPT !.pc = "done", !.results = <<>>]
               ELSE settled
    /\ StoreFrame

\* the provider call for text j of the batch in flight settles with its
\* embedding; when it is the last of the batch Promise.all resolves
ProviderResolves(j) ==
    /\ embedBatch.pc = "awaiting"
    /\ j \in BatchIndices(embedBatch) \ DOMAIN embedBatch.results
    /\ LET results == [k \in DOMAIN embedBatch.results \cup {j} |->
                          IF k = j THEN EmbeddingOf(embedBatch.texts[j])
                          ELSE embedBatch.results[k]]
           settled == [embedBatch EXCEPT !.results = results, !.order = Append(@, j),
                                         !.inFlight = @ \ {j}]
       IN  embedBatch' = IF DOMAIN results = BatchIndices(embedBatch)
                         THEN afterBatch(settled, results)
                         ELSE settled
    /\ StoreFrame

\* a provider call fails: Promise.all rejects and handleError throws
ProviderFails(j) ==
    /\ embedBatch.pc = "awaiting"
    /\ j \in BatchIndices(embedBatch) \ DOMAIN embedBatch.results
    /\ embedBatch' = [embedBatch EXCEPT !.pc = "thrown", !.providerFailed = TRUE,
                                        !.inFlight = @ \ {j}]
    /\ StoreFrame

\* generateBatchEmbeddings has thrown; a provider call it left in flight
\* settles, and nothing awaits it
AbandonedCallSettles(j) ==
    /\ embedBatch.pc = "thrown"
    /\ j \in embedBatch.inFlight
    /\ embedBatch' = [embedBatch EXCEPT !.inFlight = @ \ {j}]
    /\ StoreFrame

\* sleep(100) between two batches is over: the next batch
BatchSleepEnds ==
    /\ embedBatch.pc = "sleeping"
    /\ embedBatch' = startBatch([embedBatch EXCEPT !.i = @ + embedBatch.batchSize,
                                                   !.sleeps = @ + 1])
    /\ StoreFrame

BatchNext ==
    \/ GenerateBatchEmbeddings
    \/ \E j \in 1..MaxTexts : ProviderResolves(j)
    \/ \E j \in 1..MaxTexts : ProviderFails(j)
    \/ \E j \in 1..MaxTexts : AbandonedCallSettles(j)
    \/ BatchSleepEnds

BatchSpec == BatchInit /\ [][BatchNext]_vars

\* the result is the list of the embeddings of the texts, in their order
OrderPreserved ==
    /\ embedBatch.pc = "done"
    /\ Len(embedBatch.embeddings) = Len(embedBatch.texts)
    /\ \A i \in 1..Len(embedBatch.texts) :
          embedBatch.embeddings[i] = EmbeddingOf(embedBatch.texts[i])

\* C14 as stated: for every list of texts and every batchSize, when no
\* provider call fails generateBatchEmbeddings returns the embeddings of the
\* texts in the order of the texts, whatever the order of completion.
C14_EveryListInOrder ==
    (embedBatch.pc \in {"done", "thrown"} /\ ~embedBatch.providerFailed)
        => OrderPreserved

\* C14: for every list of non-empty texts and every batchSize, when no
\* provider call fails generateBatchEmbeddings returns the embeddings of the
\* texts in the order of the texts, whatever the order of completion; with
\* an empty text in the list it throws and returns no list.
C14_NonEmptyTextsInOrder ==
    /\ embedBatch.pc = "done" => OrderPreserved
    /\ (embedBatch.pc = "thrown" /\ ~embedBatch.providerFailed)
          => \E i \in 1..Len(embedBatch.texts) : Len(embedBatch.texts[i]) = 0
    /\ (embedBatch.pc = "done" /\ Len(embedBatch.texts) > 0)
          => \A i \in 1..Len(embedBatch.texts) : Len(embedBatch.texts[i]) > 0

\* three different texts returned in order although the provider calls of a
\* batch completed in another order
C14_Witness ==
    /\ OrderPreserved
    /\ Len(embedBatch.texts) = 3
    /\ embedBatch.texts[1] # embedBatch.texts[2]
    /\ \E a, b \in 1..Len(embedBatch.order) :
          a < b /\ embedBatch.order[a] > embedBatch.order[b]

\* the number of the batch text j belongs to, counted from 0
BatchOf(j) == (j - 1) \div embedBatch.batchSize

\* C28: at most batchSize provider calls are in flight; the calls in flight
\* belong to one batch; batch k runs only after k delays, each begun when the
\* batch before it had settled completely; and there is no delay once the
\* last batch has settled.
C28_BoundedBatches ==
    /\ Cardinality(embedBatch.inFlight) <= embedBatch.batchSize
    /\ \A j, k \in embedBatch.inFlight : BatchOf(j) = BatchOf(k)
    /\ \A j \in embedBatch.inFlight : embedBatch.sleeps = BatchOf(j)
    /\ embedBatch.pc = "awaiting" => embedBatch.inFlight # {}
    /\ embedBatch.pc = "sleeping" =>
          /\ embedBatch.inFlight = {}
          /\ embedBatch.i + embedBatch.batchSize < Len(embedBatch.texts)
          /\ Len(embedBatch.embeddings) = embedBatch.i + embedBatch.batchSize
    /\ (embedBatch.pc = "done" /\ Len(embedBatch.texts) > 0) =>
          /\ embedBatch.inFlight = {}
          /\ embedBatch.sleeps = BatchOf(Len(embedBatch.texts))

\* the second batch in flight after one delay, the two calls of the first
\* batch settled
C28_Witness ==
    /\ embedBatch.pc = "awaiting"
    /\ embedBatch.batchSize = 2
    /\ Len(embedBatch.texts) = 3
    /\ embedBatch.sleeps = 1
    /\ embedBatch.inFlight = {3}
    /\ Len(embedBatch.embeddings) = 2

(***************************************************************************)
(* calculateOptimalChunkSize on its own, over document lengths and word     *)
(* counts on both sides of its thresholds                                  *)
(***************************************************************************)
ContentLengths ==
    {1, 17, 600, 603, 1005, 1199, 1200, 1203, 1500, 1999, 2000, 5000,
     50000, 50001, 60000}

\* words per hundred characters
WordsPerHundred == {5, 10, 12, 15, 16, 20}

\* split(/\s+/) gives at least one element
WordCounts(contentLength) ==
    {IF (contentLength * d) \div 100 > 0 THEN (contentLength * d) \div 100 ELSE 1 :
        d \in WordsPerHundred}

SizingInit ==
    /\ documents = <<>>
    /\ documentChunks = <<>>
    /\ vectors = <<>>
    /\ idCounter = 1
    /\ uuidCounter = 0
    /\ loadedDocuments = <<>>
    /\ load = IdleLoad
    /\ loadCount = 0
    /\ lastOp = OpRecord("none", <<>>)
    /\ query = IdleQuery
    /\ embedBatch = IdleEmbedBatch
    /\ FrontendIdle
    /\ \E contentLength \in ContentLengths :
          \E wordCount \in WordCounts(contentLength) :
              chunker = [pc |-> "ready", contentLength |-> contentLength,
                         wordCount |-> wordCount, target |-> 0,
                         chunkSize |-> 0, overlap |-> 0]

CalculateOptimalChunkSize ==
    /\ chunker.pc = "ready"
    /\ LET optimal == calculateOptimalChunkSize(chunker.contentLength, chunker.wordCount)
       IN  chunker' = [chunker EXCEPT
               !.pc        = "sized",
               !.target    = sizeByLength(chunker.contentLength).chunkSize,
               !.chunkSize = optimal.chunkSize,
               !.overlap   = optimal.overlap]
    /\ UNCHANGED <<documents, documentChunks, vectors, idCounter, uuidCounter,
                   loadedDocuments, load, loadCount, lastOp, query, embedBatch, frontend>>

SizingNext == CalculateOptimalChunkSize

SizingSpec == SizingInit /\ [][SizingNext]_vars

\* C29: the overlap returned is between 20% and 25% of the chunk size
\* returned, after the adjustment by word density.
C29_OverlapProportional ==
    chunker.pc = "sized" =>
        /\ 100 * chunker.overlap >= 20 * chunker.chunkSize
        /\ 100 * chunker.overlap <= 25 * chunker.chunkSize

\* C30: before the adjustment by word density, the target chunk size is
\* above the base size for a document of more than 50,000 characters and
\* below it for a document of fewer than 2,000 characters.
C30_TargetScaledBySize ==
    chunker.pc = "sized" =>
        /\ chunker.contentLength > LargeDocumentLength => chunker.target > DefaultChunkSize
        /\ chunker.contentLength < SmallDocumentLength => chunker.target < DefaultChunkSize

(***************************************************************************)
(* useMessages (frontend hook): the chat message list                      *)
(***************************************************************************)
MaxMessages == 3

MessageIds == {"id-1", "id-2"}

MessageContents == {"First", "Updated"}

\* Partial<Message>: any of the fields
MessageUpdates ==
    {[content |-> c] : c \in MessageContents}
        \cup {[id |-> d] : d \in MessageIds}
        \cup {[id |-> d, content |-> c] : d \in MessageIds, c \in MessageContents}

\* Object.assign(target, source): the target object with the source's fields
\* written over its own
ObjectAssign(target, source) ==
    [f \in DOMAIN target |-> IF f \in DOMAIN source THEN source[f] ELSE target[f]]

\* the messages as a reader of the state sees them
MessageList(msgs, objects) == [i \in 1..Len(msgs) |-> objects[msgs[i]]]

\* prev.map visits the elements in order; Object.assign writes into the
\* object the element refers to, so a later element that is the same object
\* is compared with its new id
RECURSIVE updateMessageFrom(_, _, _, _, _)
updateMessageFrom(msgs, objects, messageId, updates, i) ==
    IF i > Len(msgs) THEN objects
    ELSE updateMessageFrom(msgs,
             IF objects[msgs[i]].id = messageId
             THEN [objects EXCEPT ![msgs[i]] = ObjectAssign(@, updates)]
             ELSE objects,
             messageId, updates, i + 1)

\* updateMessage writing the updates into every message of the list
updateMessageEvery(msgs, objects, messageId, updates) ==
    [r \in 1..Len(objects) |->
        IF \E i \in 1..Len(msgs) : msgs[i] = r
        THEN ObjectAssign(objects[r], updates) ELSE objects[r]]

\* updateMessage: the objects after prev.map(msg => msg.id === messageId ?
\* Object.assign(msg, updates) : msg); the new array holds the same
\* references in the same order
updateMessage(msgs, objects, messageId, updates) ==
    updateMessageFrom(msgs, objects, messageId, updates, 1)

MessagesInit ==
    /\ documents = <<>>
    /\ documentChunks = <<>>
    /\ vectors = <<>>
    /\ idCounter = 1
    /\ uuidCounter = 0
    /\ loadedDocuments = <<>>
    /\ load = IdleLoad
    /\ loadCount = 0
    /\ lastOp = [op |-> "none", arg |-> "none", updates |-> <<>>, before |-> <<>>]
    /\ query = IdleQuery
    /\ chunker = IdleChunker
    /\ embedBatch = IdleEmbedBatch
    /\ messages = <<>>
    /\ messageObjects = <<>>
    /\ debounce = IdleDebounce

MessagesFrame ==
    UNCHANGED <<documents, documentChunks, vectors, idCounter, uuidCounter,
                loadedDocuments, load, loadCount, query, chunker, embedBatch, debounce>>

\* addMessage(new Message(id, 'user', content))
AddMessage(id, content) ==
    /\ Len(messages) < MaxMessages
    /\ messageObjects' = Append(messageObjects,
                                [id |-> id, role |-> "user", content |-> content])
    /\ messages' = Append(messages, Len(messageObjects) + 1)
    /\ lastOp' = [op |-> "addMessage", arg |-> id, updates |-> <<>>,
                  before |-> MessageList(messages, messageObjects)]
    /\ MessagesFrame

\* addMessage of an object that is in the list already
AddSameMessage(i) ==
    /\ Len(messages) < MaxMessages
    /\ messages' = Append(messages, messages[i])
    /\ lastOp' = [op |-> "addMessage", arg |-> messageObjects[messages[i]].id,
                  updates |-> <<>>,
                  before |-> MessageList(messages, messageObjects)]
    /\ UNCHANGED messageObjects
    /\ MessagesFrame

UpdateMessage(messageId, updates) ==
    /\ messageObjects' = updateMessage(messages, messageObjects, messageId, updates)
    /\ lastOp' = [op |-> "updateMessage", arg |-> messageId, updates |-> updates,
                  before |-> MessageList(messages, messageObjects)]
    /\ UNCHANGED messages
    /\ MessagesFrame

\* clearMessages; the objects no longer referred to by the state are dropped
ClearMessages ==
    /\ messages' = <<>>
    /\ messageObjects' = <<>>
    /\ lastOp' = [op |-> "clearMessages", arg |-> "none", updates |-> <<>>,
                  before |-> MessageList(messages, messageObjects)]
    /\ MessagesFrame

MessagesNext ==
    \/ \E id \in MessageIds, content \in MessageContents : AddMessage(id, content)
    \/ \E i \in 1..Len(messages) : AddSameMessage(i)
    \/ \E id \in MessageIds, updates \in MessageUpdates : UpdateMessage(id, updates)
    \/ ClearMessages

MessagesSpec == MessagesInit /\ [][MessagesNext]_vars

\* C23: updateMessage(id, updates) keeps the number and the order of the
\* messages, leaves every message whose id is not id as it was (so the whole
\* list when no message has that id), and writes the updates into the
\* messages whose id is id.
C23_UpdateChangesOnlyTarget ==
    lastOp.op = "updateMessage" =>
        LET now    == MessageList(messages, messageObjects)
            before == lastOp.before
        IN  /\ Len(now) = Len(before)
            /\ \A i \in 1..Len(before) :
                  before[i].id # lastOp.arg => now[i] = before[i]
            /\ (\A i \in 1..Len(before) : before[i].id # lastOp.arg) => now = before
            /\ \A i \in 1..Len(before) :
                  before[i].id = lastOp.arg =>
                      /\ now[i].role = before[i].role
                      /\ \A f \in DOMAIN lastOp.updates : now[i][f] = lastOp.updates[f]

\* an update of the middle one of three messages, the others having another
\* id
C23_Witness ==
    /\ lastOp.op = "updateMessage"
    /\ Len(messages) = 3
    /\ lastOp.before[2].id = lastOp.arg
    /\ lastOp.before[1].id # lastOp.arg
    /\ lastOp.before[3].id # lastOp.arg
    /\ messageObjects[messages[2]].content # lastOp.before[2].content

(***************************************************************************)
(* UIService.debounce: one wrapped function, its timer and the clock       *)
(***************************************************************************)
MaxTime == 6
MaxCalls == 3

Waits == {1, 2}

DebounceArgs == {"arg1", "arg2"}

NoTimer == -1

\* debounce(func, wait) has returned the wrapper; timeout is unset
DebounceInit ==
    /\ documents = <<>>
    /\ documentChunks = <<>>
    /\ vectors = <<>>
    /\ idCounter = 1
    /\ uuidCounter = 0
    /\ loadedDocuments = <<>>
    /\ load = IdleLoad
    /\ loadCount = 0
    /\ lastOp = OpRecord("none", <<>>)
    /\ query = IdleQuery
    /\ chunker = IdleChunker
    /\ embedBatch = IdleEmbedBatch
    /\ messages = <<>>
    /\ messageObjects = <<>>
    /\ \E wait \in Waits :
          debounce = [pc |-> "wrapped", wait |-> wait, now |-> 0,
                      timeout |-> NoTimer, args |-> "none", call |-> 0,
                      calls |-> <<>>, invocations |-> <<>>]

DebounceFrame ==
    UNCHANGED <<documents, documentChunks, vectors, idCounter, uuidCounter,
                loadedDocuments, load, loadCount, lastOp, query, chunker, embedBatch,
                messages, messageObjects>>

\* the wrapper leaving a pending timer as it is and replacing its arguments
DebouncedCallKeepingTimer(args) ==
    /\ debounce.pc = "wrapped"
    /\ Len(debounce.calls) < MaxCalls
    /\ debounce.now + debounce.wait <= MaxTime
    /\ debounce' = [debounce EXCEPT
          !.timeout = IF @ = NoTimer THEN debounce.now + debounce.wait ELSE @,
          !.args    = args,
          !.call    = Len(debounce.calls) + 1,
          !.calls   = Append(@, [at |-> debounce.now, args |-> args])]
    /\ DebounceFrame

\* the wrapper: clearTimeout(timeout); timeout = setTimeout(() =>
\* func.apply(this, args), wait)
DebouncedCall(args) ==
    /\ debounce.pc = "wrapped"
    /\ Len(debounce.calls) < MaxCalls
    /\ debounce.now + debounce.wait <= MaxTime
    /\ debounce' = [debounce EXCEPT
          !.timeout = debounce.now + debounce.wait,
          !.args    = args,
          !.call    = Len(debounce.calls) + 1,
          !.calls   = Append(@, [at |-> debounce.now, args |-> args])]
    /\ DebounceFrame

\* the timer callback runs: not before the timer is due, and as late as the
\* event loop lets it
TimerFires ==
    /\ debounce.pc = "wrapped"
    /\ debounce.timeout # NoTimer
    /\ debounce.now >= debounce.timeout
    /\ debounce' = [debounce EXCEPT
          !.timeout     = NoTimer,
          !.invocations = Append(@, [at |-> debounce.now, args |-> debounce.args,
                                     call |-> debounce.call])]
    /\ DebounceFrame

TimePasses ==
    /\ debounce.pc = "wrapped"
    /\ debounce.now < MaxTime
    /\ debounce' = [debounce EXCEPT !.now = @ + 1]
    /\ DebounceFrame

DebounceNext ==
    \/ \E args \in DebounceArgs : DebouncedCall(args)
    \/ TimerFires
    \/ TimePasses

\* time passes, and a timer that is due is run at some point
DebounceSpec ==
    DebounceInit /\ [][DebounceNext]_vars
        /\ WF_vars(TimerFires) /\ WF_vars(TimePasses)

\* func was invoked for the call numbered j
InvokedFor(j) ==
    \E k \in 1..Len(debounce.invocations) : debounce.invocations[k].call = j

\* every invocation of func carries the arguments of the call that was the
\* last one when it ran, runs at least wait after that call, and is the only
\* one for that call; no call that was followed by another one less than
\* wait later is ever invoked
DebounceSafe ==
    /\ \A k \in 1..Len(debounce.invocations) :
          LET v == debounce.invocations[k]
              c == debounce.calls[v.call]
          IN  /\ v.args = c.args
              /\ v.at >= c.at + debounce.wait
              /\ v.call < Len(debounce.calls) => debounce.calls[v.call + 1].at >= v.at
              /\ \A l \in 1..Len(debounce.invocations) :
                    debounce.invocations[l].call = v.call => l = k
    /\ \A j \in 1..(Len(debounce.calls) - 1) :
          debounce.calls[j + 1].at < debounce.calls[j].at + debounce.wait
              => ~InvokedFor(j)

\* C24 as stated: besides the above, a call that was followed by no other
\* call until wait had elapsed has had func invoked for it.
C24_InvokedOnceWaitElapsed ==
    /\ DebounceSafe
    /\ \A j \in 1..(Len(debounce.calls) - 1) :
          debounce.calls[j + 1].at > debounce.calls[j].at + debounce.wait
              => InvokedFor(j)

\* C24, amended: func is invoked only at least wait after the last call,
\* with that call's arguments and once; each call resets the timer; and a
\* call is followed by the invocation of func for it unless another call
\* arrives before the timer callback has run.
C24_InvokedUnlessCalledAgain ==
    /\ []DebounceSafe
    /\ \A j \in 1..MaxCalls :
          (Len(debounce.calls) = j /\ debounce.timeout # NoTimer)
              ~> (Len(debounce.calls) > j \/ InvokedFor(j))

\* three calls less than wait apart, the last one invoked
C24_Witness ==
    /\ Len(debounce.calls) = 3
    /\ debounce.wait = 2
    /\ debounce.calls[2].at = debounce.calls[1].at + 1
    /\ debounce.calls[3].at = debounce.calls[2].at + 1
    /\ debounce.calls[3].args # debounce.calls[2].args
    /\ InvokedFor(3)
    /\ Len(debounce.invocations) = 1

====
